---- MODULE Spec2Model ----
(***************************************************************************)
(* IVXP/1.0 provider (ivxp-provider.py): the order map, the persisted      *)
(* order file, the request/deliver/status/download handlers and the        *)
(* background fulfillment threads started by process_service_async.        *)
(*                                                                         *)
(* The Flask development server handles every request in its own thread    *)
(* and the fulfillment workers are daemon threads, so handlers and workers *)
(* interleave between statements.  A handler or worker is a record with a  *)
(* program counter; every statement that writes the shared order map is    *)
(* one step.  Lines 119-148 of handle_delivery_request only read immutable *)
(* data (membership of the id in the map, the request body, the chain) and *)
(* are one step.                                                           *)
(***************************************************************************)
EXTENDS Integers, Sequences, FiniteSets, TLC

\* ------------------------------------------------------------------ bounds
MaxOrders == 2
MaxDeliver == 2

OrderIds == 1..MaxOrders
UnknownId == 0
Threads == 1..MaxDeliver

\* ------------------------------------------------------- program constants
WALLET_ADDRESS == "0x0c0f"

CatalogTypes == {"research", "debugging", "code_review", "consultation", "content", "philosophy"}

SERVICE_CATALOG ==
    [t \in CatalogTypes |->
        CASE t = "research"     -> [base_price |-> 50, delivery_hours |-> 8]
          [] t = "debugging"    -> [base_price |-> 30, delivery_hours |-> 4]
          [] t = "code_review"  -> [base_price |-> 50, delivery_hours |-> 12]
          [] t = "consultation" -> [base_price |-> 25, delivery_hours |-> 2]
          [] t = "content"      -> [base_price |-> 40, delivery_hours |-> 6]
          [] t = "philosophy"   -> [base_price |-> 3,  delivery_hours |-> 1]]

\* ------------------------------------------------------------ input domains
\* a description is its sequence of words
Descriptions == {<<"short">>}
Wallets == {"0xAB"}
Budgets == {50}

ChainTxs == {"tx_found"}
\* "missing": the request body has no delivery_endpoint key; "": empty or null
Endpoints == {"missing", "", "http://client"}
PushOutcomes == {"200", "500", "timeout"}

\* ----------------------------------------------------------------- absent
NoProof == [tx_hash |-> "absent", from_address |-> "absent", network |-> "absent"]
NoContent == [title |-> <<>>, body |-> <<>>]
NoDeliverable == [type |-> <<>>, format |-> "absent", content |-> NoContent]
NoHash == 0
NoTime == 0
NoEndpoint == "unset"

VARIABLES orders, disk, handlers, workers, clock, started, pushes, poll

vars == <<orders, disk, handlers, workers, clock, started, pushes, poll>>

\* ------------------------------------------------------------ pure helpers
Lower(a) == IF a = "0xAB" THEN "0xab" ELSE a

\* Account.recover_message: the signer when the signature was made over this
\* message, some unrelated address when it was made over another one
recover_message(message, signature) ==
    IF signature.msg = message THEN signature.signer ELSE "0xee"

\* the addresses are compared as they are written
verify_signature_CaseSensitive(message, signature, expected_address) ==
    IF signature.signer = "malformed"
    THEN FALSE
    ELSE recover_message(message, signature) = expected_address

verify_signature(message, signature, expected_address) ==
    IF signature.signer = "malformed"
    THEN FALSE
    ELSE Lower(recover_message(message, signature)) = Lower(expected_address)

\* the transaction must carry the expected amount (each known transaction
\* transfers 50)
verify_payment_ChecksAmount(payment_proof, expected_to, expected_amount, rpc) ==
    IF rpc = "timeout" THEN FALSE
    ELSE IF rpc # "ok" THEN FALSE
    ELSE IF payment_proof.tx_hash \notin ChainTxs THEN FALSE
    ELSE expected_amount = 50

verify_payment(payment_proof, expected_to, expected_amount, rpc) ==
    IF rpc = "timeout" THEN FALSE
    ELSE IF rpc # "ok" THEN FALSE
    ELSE IF payment_proof.tx_hash \notin ChainTxs THEN FALSE
    ELSE TRUE

Title(service_type) ==
    CASE service_type = "research" -> "Research"
      [] service_type = "philosophy" -> "Philosophy"
      [] OTHER -> service_type

\* description[:50]
Trunc50(description) == SubSeq(description, 1, IF Len(description) < 50 THEN Len(description) ELSE 50)

\* the mock deliverable built by process() from the order's service request
MakeDeliverable(service_type, description) ==
    [type    |-> <<service_type, "_deliverable">>,
     format  |-> "markdown",
     content |-> [title |-> <<Title(service_type)>> \o Trunc50(description),
                  body  |-> <<Title(service_type), "Service completed for">> \o description]]

StrCode(s) ==
    CASE s = "Research" -> 3
      [] s = "Philosophy" -> 5
      [] s = "short" -> 7
      [] s = "Service completed for" -> 11
      [] OTHER -> 13

RECURSIVE Digest(_)
Digest(s) == IF s = <<>> THEN 17 ELSE (StrCode(Head(s)) + 31 * Digest(Tail(s))) % 65521

\* json.dumps(content, sort_keys=True): the values in the order of the sorted
\* keys, body before title
JsonDumps(content) == content.body \o content.title

create_content_hash(content) == 1 + Digest(JsonDumps(content))

\* ------------------------------------------------------------------- state
IdleHandler ==
    [pc |-> "idle", order_id |-> UnknownId, payment_proof |-> NoProof,
     delivery_endpoint |-> NoEndpoint, code |-> 0]

IdleWorker ==
    [pc |-> "idle", order_id |-> UnknownId, deliverable |-> NoDeliverable,
     content_hash |-> NoHash, delivery_endpoint |-> NoEndpoint]

\* the client is not polling
IdlePoll == [pc |-> "idle", max_attempts |-> 0, attempt |-> 0, checks |-> 0,
             downloads |-> 0, status |-> "unset", result |-> "None"]

Init ==
    /\ poll = IdlePoll
    /\ orders = <<>>
    /\ disk = <<>>
    /\ handlers = [h \in Threads |-> IdleHandler]
    /\ workers = [w \in Threads |-> IdleWorker]
    /\ clock = 1
    /\ started = [o \in OrderIds |-> 0]
    /\ pushes = [o \in OrderIds |-> 0]

\* order = orders[order_id]; order[field] = value
SetField(o, field, value) == [orders EXCEPT ![o] = [@ EXCEPT ![field] = value]]

\* save_orders(orders): the whole in-memory map is dumped to the order file
save_orders(os) == os

\* ------------------------------------------------- POST /ivxp/request
\* the client's budget is taken as the price
NewOrder_PriceIsBudget(client, service_type, description, budget, now) ==
    [status |-> "quoted",
     client |-> client,
     service_type |-> service_type,
     description |-> description,
     budget |-> budget,
     price_usdc |-> budget,
     created_at |-> now,
     payment_proof |-> NoProof,
     delivery_endpoint |-> NoEndpoint,
     paid_at |-> NoTime,
     deliverable |-> NoDeliverable,
     content_hash |-> NoHash,
     completed_at |-> NoTime,
     delivered_at |-> NoTime]

NewOrder(client, service_type, description, budget, now) ==
    [status |-> "quoted",
     client |-> client,
     service_type |-> service_type,
     description |-> description,
     budget |-> budget,
     price_usdc |-> SERVICE_CATALOG[service_type].base_price,
     created_at |-> now,
     payment_proof |-> NoProof,
     delivery_endpoint |-> NoEndpoint,
     paid_at |-> NoTime,
     deliverable |-> NoDeliverable,
     content_hash |-> NoHash,
     completed_at |-> NoTime,
     delivered_at |-> NoTime]

\* the catalog lookup is not checked
RequestCheck_NoCatalog(protocol, message_type, service_type) ==
    IF protocol # "IVXP/1.0" THEN 400
    ELSE IF message_type # "service_request" THEN 400
    ELSE 0

\* the message type is not checked
RequestCheck_NoMessageType(protocol, message_type, service_type) ==
    IF protocol # "IVXP/1.0" THEN 400
    ELSE IF service_type \notin DOMAIN SERVICE_CATALOG THEN 400
    ELSE 0

\* lines 55-69: 0 when the request passes, else the status code of the error
RequestCheck(protocol, message_type, service_type) ==
    IF protocol # "IVXP/1.0" THEN 400
    ELSE IF message_type # "service_request" THEN 400
    ELSE IF service_type \notin DOMAIN SERVICE_CATALOG THEN 400
    ELSE 0

\* uuid4 gives an id no order has; ids are opaque, so the smallest unused one
FreshId(order_id) ==
    /\ order_id \notin DOMAIN orders
    /\ \A i \in OrderIds : i < order_id => i \in DOMAIN orders

handle_service_request(protocol, message_type, client, service_type, description, budget, order_id) ==
    /\ RequestCheck(protocol, message_type, service_type) = 0
    /\ FreshId(order_id)
    /\ orders' = orders @@ (order_id :> NewOrder(client, service_type, description, budget, clock))
    /\ disk' = save_orders(orders')
    /\ clock' = clock + 1
    /\ UNCHANGED <<handlers, workers, started, pushes, poll>>

\* ------------------------------------------------- POST /ivxp/deliver
FreeThread(h) == handlers[h].pc = "idle" /\ \A g \in Threads : g < h => handlers[g].pc # "idle"

Finish(h, code) == [handlers EXCEPT ![h] = [@ EXCEPT !.pc = "done", !.code = code,
                                                  !.payment_proof = NoProof,
                                                  !.delivery_endpoint = NoEndpoint]]

\* the signature is not verified
DeliverCheck_NoSignature(order_id, signed_message, signature, payment_proof, rpc) ==
    IF order_id \notin DOMAIN orders THEN 404
    ELSE IF ~verify_payment(payment_proof, WALLET_ADDRESS, orders[order_id].price_usdc, rpc) THEN 402
    ELSE 0

\* the payment is verified before the signature
DeliverCheck_PaymentFirst(order_id, signed_message, signature, payment_proof, rpc) ==
    IF order_id \notin DOMAIN orders THEN 404
    ELSE IF ~verify_payment(payment_proof, WALLET_ADDRESS, orders[order_id].price_usdc, rpc) THEN 402
    ELSE IF ~verify_signature(signed_message, signature, payment_proof.from_address) THEN 401
    ELSE 0

\* the payer must be the wallet that requested the order
DeliverCheck_ClientOnly(order_id, signed_message, signature, payment_proof, rpc) ==
    IF order_id \notin DOMAIN orders THEN 404
    ELSE IF Lower(payment_proof.from_address) # Lower(orders[order_id].client) THEN 403
    ELSE IF ~verify_signature(signed_message, signature, payment_proof.from_address) THEN 401
    ELSE IF ~verify_payment(payment_proof, WALLET_ADDRESS, orders[order_id].price_usdc, rpc) THEN 402
    ELSE 0

\* a transaction that already paid another order is refused
DeliverCheck_TxUnused(order_id, signed_message, signature, payment_proof, rpc) ==
    IF order_id \notin DOMAIN orders THEN 404
    ELSE IF ~verify_signature(signed_message, signature, payment_proof.from_address) THEN 401
    ELSE IF ~verify_payment(payment_proof, WALLET_ADDRESS, orders[order_id].price_usdc, rpc) THEN 402
    ELSE IF \E o \in DOMAIN orders \ {order_id} : orders[o].payment_proof.tx_hash = payment_proof.tx_hash THEN 402
    ELSE 0

\* lines 119-148: lookup, verify_signature, verify_payment
DeliverCheck(order_id, signed_message, signature, payment_proof, rpc) ==
    IF order_id \notin DOMAIN orders THEN 404
    ELSE IF ~verify_signature(signed_message, signature, payment_proof.from_address) THEN 401
    ELSE IF ~verify_payment(payment_proof, WALLET_ADDRESS, orders[order_id].price_usdc, rpc) THEN 402
    ELSE 0

\* lines 119-148 with every check passed: the thread goes on to line 153
DeliverAccept(h, order_id, signed_message, signature, payment_proof, delivery_endpoint, rpc) ==
    /\ FreeThread(h)
    /\ DeliverCheck(order_id, signed_message, signature, payment_proof, rpc) = 0
    /\ handlers' = [handlers EXCEPT ![h] =
           [pc |-> "set_status", order_id |-> order_id, payment_proof |-> payment_proof,
            delivery_endpoint |-> delivery_endpoint, code |-> 0]]
    /\ UNCHANGED <<orders, disk, workers, clock, started, pushes, poll>>

\* line 153
DeliverSetStatus(h) ==
    /\ handlers[h].pc = "set_status"
    /\ orders' = SetField(handlers[h].order_id, "status", "paid")
    /\ handlers' = [handlers EXCEPT ![h].pc = "set_proof"]
    /\ UNCHANGED <<disk, workers, clock, started, pushes, poll>>

\* line 154
DeliverSetProof(h) ==
    /\ handlers[h].pc = "set_proof"
    /\ orders' = SetField(handlers[h].order_id, "payment_proof", handlers[h].payment_proof)
    /\ handlers' = [handlers EXCEPT ![h].pc = "set_endpoint"]
    /\ UNCHANGED <<disk, workers, clock, started, pushes, poll>>

\* line 155: data['delivery_endpoint'] raises KeyError when the key is missing
DeliverSetEndpoint(h) ==
    /\ handlers[h].pc = "set_endpoint"
    /\ IF handlers[h].delivery_endpoint = "missing"
       THEN /\ handlers' = Finish(h, 500)
            /\ UNCHANGED orders
       ELSE /\ orders' = SetField(handlers[h].order_id, "delivery_endpoint", handlers[h].delivery_endpoint)
            /\ handlers' = [handlers EXCEPT ![h].pc = "set_paid_at"]
    /\ UNCHANGED <<disk, workers, clock, started, pushes, poll>>

\* line 156
DeliverSetPaidAt(h) ==
    /\ handlers[h].pc = "set_paid_at"
    /\ orders' = SetField(handlers[h].order_id, "paid_at", clock)
    /\ clock' = clock + 1
    /\ handlers' = [handlers EXCEPT ![h].pc = "save"]
    /\ UNCHANGED <<disk, workers, started, pushes, poll>>

\* line 158
DeliverSave(h) ==
    /\ handlers[h].pc = "save"
    /\ disk' = save_orders(orders)
    /\ handlers' = [handlers EXCEPT ![h].pc = "spawn"]
    /\ UNCHANGED <<orders, workers, clock, started, pushes, poll>>

\* lines 166-172: process_service_async starts the thread, then 200 accepted
\* the handler runs the service itself and answers when it is done
DeliverSpawn_Inline(h) ==
    /\ handlers[h].pc = "spawn"
    /\ LET order == orders[handlers[h].order_id]
           deliverable == MakeDeliverable(order.service_type, order.description)
       IN orders' = [orders EXCEPT ![handlers[h].order_id] =
              [@ EXCEPT !.deliverable = deliverable,
                        !.content_hash = create_content_hash(deliverable.content),
                        !.status = "delivery_failed"]]
    /\ workers' = [workers EXCEPT ![h] = [IdleWorker EXCEPT !.pc = "done", !.order_id = handlers[h].order_id]]
    /\ started' = [started EXCEPT ![handlers[h].order_id] = @ + 1]
    /\ handlers' = Finish(h, 200)
    /\ UNCHANGED <<disk, clock, pushes, poll>>

DeliverSpawn(h) ==
    /\ handlers[h].pc = "spawn"
    /\ workers' = [workers EXCEPT ![h] = [IdleWorker EXCEPT !.pc = "produce", !.order_id = handlers[h].order_id]]
    /\ started' = [started EXCEPT ![handlers[h].order_id] = @ + 1]
    /\ handlers' = Finish(h, 200)
    /\ UNCHANGED <<orders, disk, clock, pushes, poll>>

\* ------------------------------------------------- fulfillment thread
\* lines 217-260: after the sleep, process() builds the deliverable from the
\* order's service request; deliver_to_client reads the endpoint and hashes
WorkerProduce(w) ==
    /\ workers[w].pc = "produce"
    /\ LET order == orders[workers[w].order_id]
           deliverable == MakeDeliverable(order.service_type, order.description)
       IN workers' = [workers EXCEPT ![w] =
              [@ EXCEPT !.pc = "store_deliverable",
                        !.deliverable = deliverable,
                        !.delivery_endpoint = order.delivery_endpoint,
                        !.content_hash = create_content_hash(deliverable.content)]]
    /\ UNCHANGED <<orders, disk, handlers, clock, started, pushes, poll>>

\* the deliverable is never attached to the order
WorkerStoreDeliverable_Skip(w) ==
    /\ workers[w].pc = "store_deliverable"
    /\ workers' = [workers EXCEPT ![w].pc = "store_hash"]
    /\ UNCHANGED <<orders, disk, handlers, clock, started, pushes, poll>>

\* line 263
WorkerStoreDeliverable(w) ==
    /\ workers[w].pc = "store_deliverable"
    /\ orders' = SetField(workers[w].order_id, "deliverable", workers[w].deliverable)
    /\ workers' = [workers EXCEPT ![w].pc = "store_hash"]
    /\ UNCHANGED <<disk, handlers, clock, started, pushes, poll>>

\* the hash of the title alone instead of the whole content
WorkerStoreHash_TitleOnly(w) ==
    /\ workers[w].pc = "store_hash"
    /\ orders' = SetField(workers[w].order_id, "content_hash",
                          create_content_hash([workers[w].deliverable.content EXCEPT !.body = <<>>]))
    /\ workers' = [workers EXCEPT ![w].pc = "store_completed"]
    /\ UNCHANGED <<disk, handlers, clock, started, pushes, poll>>

\* line 264
WorkerStoreHash(w) ==
    /\ workers[w].pc = "store_hash"
    /\ orders' = SetField(workers[w].order_id, "content_hash", workers[w].content_hash)
    /\ workers' = [workers EXCEPT ![w].pc = "store_completed"]
    /\ UNCHANGED <<disk, handlers, clock, started, pushes, poll>>

\* line 265
WorkerStoreCompleted(w) ==
    /\ workers[w].pc = "store_completed"
    /\ orders' = SetField(workers[w].order_id, "completed_at", clock)
    /\ clock' = clock + 1
    /\ workers' = [workers EXCEPT ![w].pc = "save"]
    /\ UNCHANGED <<disk, handlers, started, pushes, poll>>

\* the push goes out before the order file is written
WorkerSave_Skip(w) ==
    /\ workers[w].pc = "save"
    /\ workers' = [workers EXCEPT ![w].pc = "push"]
    /\ UNCHANGED <<orders, disk, handlers, clock, started, pushes, poll>>

\* line 266
WorkerSave(w) ==
    /\ workers[w].pc = "save"
    /\ disk' = save_orders(orders)
    /\ workers' = [workers EXCEPT ![w].pc = "push"]
    /\ UNCHANGED <<orders, handlers, clock, started, pushes, poll>>

\* the payload is sent without its content_hash
PushPayload_NoHash(w) ==
    [order_id |-> workers[w].order_id,
     status |-> "completed",
     deliverable |-> workers[w].deliverable,
     content_hash |-> NoHash]

\* lines 271-283: the payload of the push, built from the locals of
\* deliver_to_client
PushPayload(w) ==
    [order_id |-> workers[w].order_id,
     status |-> "completed",
     deliverable |-> workers[w].deliverable,
     content_hash |-> workers[w].content_hash]

\* if delivery_endpoint: (None and "" are falsy)
Truthy(endpoint) == endpoint \notin {"", NoEndpoint}

WorkerDone(w) == [workers EXCEPT ![w] = [IdleWorker EXCEPT !.pc = "done", !.order_id = workers[w].order_id]]

\* lines 286-289: the push request is issued; without endpoint line 304
WorkerPush(w) ==
    /\ workers[w].pc = "push"
    /\ IF Truthy(workers[w].delivery_endpoint)
       THEN /\ pushes' = [pushes EXCEPT ![workers[w].order_id] = @ + 1]
            /\ workers' = [workers EXCEPT ![w].pc = "await"]
            /\ UNCHANGED orders
       ELSE /\ orders' = SetField(workers[w].order_id, "status", "delivery_failed")
            /\ workers' = [workers EXCEPT ![w].pc = "save_failed"]
            /\ UNCHANGED pushes
    /\ UNCHANGED <<disk, handlers, clock, started, poll>>

\* the status code of the push answer is not looked at
WorkerPushResult_AnyAnswer(w, outcome) ==
    /\ workers[w].pc = "await"
    /\ outcome \in {"200", "500"}
    /\ orders' = SetField(workers[w].order_id, "status", "delivered")
    /\ workers' = [workers EXCEPT ![w].pc = "set_delivered_at"]
    /\ UNCHANGED <<disk, handlers, clock, started, pushes, poll>>

\* lines 289-304: the push answers 200 (line 292), or anything else (line 304)
WorkerPushResult(w, outcome) ==
    /\ workers[w].pc = "await"
    /\ IF outcome = "200"
       THEN /\ orders' = SetField(workers[w].order_id, "status", "delivered")
            /\ workers' = [workers EXCEPT ![w].pc = "set_delivered_at"]
       ELSE /\ orders' = SetField(workers[w].order_id, "status", "delivery_failed")
            /\ workers' = [workers EXCEPT ![w].pc = "save_failed"]
    /\ UNCHANGED <<disk, handlers, clock, started, pushes, poll>>

\* line 293
WorkerSetDeliveredAt(w) ==
    /\ workers[w].pc = "set_delivered_at"
    /\ orders' = SetField(workers[w].order_id, "delivered_at", clock)
    /\ clock' = clock + 1
    /\ workers' = [workers EXCEPT ![w].pc = "save_delivered"]
    /\ UNCHANGED <<disk, handlers, started, pushes, poll>>

\* line 294
WorkerSaveDelivered(w) ==
    /\ workers[w].pc = "save_delivered"
    /\ disk' = save_orders(orders)
    /\ workers' = WorkerDone(w)
    /\ UNCHANGED <<orders, handlers, clock, started, pushes, poll>>

\* line 305
WorkerSaveFailed(w) ==
    /\ workers[w].pc = "save_failed"
    /\ disk' = save_orders(orders)
    /\ workers' = WorkerDone(w)
    /\ UNCHANGED <<orders, handlers, clock, started, pushes, poll>>

\* ------------------------------------------------- GET /ivxp/status/<id>
NoBody == [status |-> "none", created_at |-> NoTime, service_type |-> "none", price_usdc |-> 0,
           deliverable |-> NoDeliverable, delivered_at |-> NoTime, content_hash |-> NoHash]

Response(code, body) == [code |-> code, body |-> body]

check_order_status(order_id) ==
    IF order_id \notin DOMAIN orders
    THEN Response(404, NoBody)
    ELSE LET order == orders[order_id] IN
         Response(200, [NoBody EXCEPT !.status = order.status,
                                      !.created_at = order.created_at,
                                      !.service_type = order.service_type,
                                      !.price_usdc = order.price_usdc])

\* ------------------------------------------------- GET /ivxp/download/<id>
\* a failed order is served without its content_hash
download_deliverable_FailedNoHash(order_id) ==
    IF order_id \notin DOMAIN orders
    THEN Response(404, NoBody)
    ELSE LET order == orders[order_id] IN
         IF order.status = "quoted"
         THEN Response(202, [NoBody EXCEPT !.status = "pending_payment"])
         ELSE IF order.status = "paid"
         THEN Response(202, [NoBody EXCEPT !.status = "processing"])
         ELSE IF order.status \in {"delivered", "delivery_failed"} /\ order.deliverable # NoDeliverable
         THEN Response(200, [NoBody EXCEPT !.status = "completed",
                                           !.deliverable = order.deliverable,
                                           !.delivered_at = order.delivered_at,
                                           !.content_hash = IF order.status = "delivered"
                                                            THEN order.content_hash ELSE NoHash])
         ELSE Response(404, [NoBody EXCEPT !.status = order.status])

\* ivxp-provider-polling.py: the earlier form of the handler, which answers
\* the two terminal statuses in separate branches and sends no content_hash
download_deliverable_polling(order_id) ==
    IF order_id \notin DOMAIN orders
    THEN Response(404, NoBody)
    ELSE LET order == orders[order_id] IN
         IF order.status = "quoted"
         THEN Response(202, [NoBody EXCEPT !.status = "pending_payment"])
         ELSE IF order.status = "paid"
         THEN Response(202, [NoBody EXCEPT !.status = "processing"])
         ELSE IF order.status = "delivery_failed" /\ order.deliverable # NoDeliverable
         THEN Response(200, [NoBody EXCEPT !.status = "completed",
                                           !.deliverable = order.deliverable,
                                           !.delivered_at = order.delivered_at])
         ELSE IF order.status = "delivered" /\ order.deliverable # NoDeliverable
         THEN Response(200, [NoBody EXCEPT !.status = "completed",
                                           !.deliverable = order.deliverable,
                                           !.delivered_at = order.delivered_at])
         ELSE Response(404, [NoBody EXCEPT !.status = order.status])

download_deliverable(order_id) ==
    IF order_id \notin DOMAIN orders
    THEN Response(404, NoBody)
    ELSE LET order == orders[order_id] IN
         IF order.status = "quoted"
         THEN Response(202, [NoBody EXCEPT !.status = "pending_payment"])
         ELSE IF order.status = "paid"
         THEN Response(202, [NoBody EXCEPT !.status = "processing"])
         ELSE IF order.status \in {"delivered", "delivery_failed"} /\ order.deliverable # NoDeliverable
         THEN Response(200, [NoBody EXCEPT !.status = "completed",
                                           !.deliverable = order.deliverable,
                                           !.delivered_at = order.delivered_at,
                                           !.content_hash = order.content_hash])
         ELSE Response(404, [NoBody EXCEPT !.status = order.status])

\* lines 356-387 when the order changes between the reads of order['status']:
\* at356, at362 and at369 are the order as lines 356, 362 and 369-386 see it
download_reads(at356, at362, at369) ==
    IF at356.status = "quoted"
    THEN Response(202, [NoBody EXCEPT !.status = "pending_payment"])
    ELSE IF at362.status = "paid"
    THEN Response(202, [NoBody EXCEPT !.status = "processing"])
    ELSE IF at369.status \in {"delivered", "delivery_failed"} /\ at369.deliverable # NoDeliverable
    THEN Response(200, [NoBody EXCEPT !.status = "completed",
                                      !.deliverable = at369.deliverable,
                                      !.delivered_at = at369.delivered_at,
                                      !.content_hash = at369.content_hash])
    ELSE Response(404, [NoBody EXCEPT !.status = at369.status])

\* ------------------------------------------------- client, ivxp-client.py
\* the payload as it arrives when the content was altered on the way
Tampered(body) == [body EXCEPT !.deliverable.content.body = <<"tampered">>]

\* IVXPClient.download_deliverable, lines 214-249: the delivery it saves and
\* returns for a 200 answer, NoBody (None) for every other answer
client_download_deliverable(response) ==
    IF response.code = 200 THEN response.body ELSE NoBody

\* ------------------------------------- IVXPClient.poll_and_download
MaxAttempts == 3

\* what check_order_status of the client returns: None ("none") for a failed
\* call, else the status of the answer
StatusAnswers == {"none", "quoted", "paid", "delivered", "delivery_failed"}
\* the answer to the download request; only a 200 yields the delivery
DownloadAnswers == {"200", "202", "404", "error"}

\* lines 255-263: the call; range(max_attempts) is empty for 0
PollStart(max_attempts) ==
    /\ poll.pc = "idle"
    /\ poll' = IF max_attempts = 0
               THEN [IdlePoll EXCEPT !.pc = "done"]
               ELSE [IdlePoll EXCEPT !.pc = "check", !.max_attempts = max_attempts]
    /\ UNCHANGED <<orders, disk, handlers, workers, clock, started, pushes>>

\* the loop runs one attempt more than max_attempts
PollWait_OneMore ==
    /\ poll.pc = "wait"
    /\ poll' = IF poll.attempt < poll.max_attempts
               THEN [poll EXCEPT !.pc = "check", !.attempt = @ + 1]
               ELSE [poll EXCEPT !.pc = "done", !.result = "None"]
    /\ UNCHANGED <<orders, disk, handlers, workers, clock, started, pushes>>

\* lines 264-268: one status check
PollCheck(answer) ==
    /\ poll.pc = "check"
    /\ poll' = [poll EXCEPT !.checks = @ + 1,
                            !.status = answer,
                            !.pc = IF answer \in {"delivered", "delivery_failed"}
                                   THEN "download" ELSE "wait"]
    /\ UNCHANGED <<orders, disk, handlers, workers, clock, started, pushes>>

\* lines 270-275: the download after a terminal status
PollDownload(answer) ==
    /\ poll.pc = "download"
    /\ poll' = IF answer = "200"
               THEN [poll EXCEPT !.downloads = @ + 1, !.pc = "done", !.result = "deliverable"]
               ELSE [poll EXCEPT !.downloads = @ + 1, !.pc = "wait"]
    /\ UNCHANGED <<orders, disk, handlers, workers, clock, started, pushes>>

\* lines 277-282: sleep and go on, or leave the loop after the last attempt
PollWait ==
    /\ poll.pc = "wait"
    /\ poll' = IF poll.attempt < poll.max_attempts - 1
               THEN [poll EXCEPT !.pc = "check", !.attempt = @ + 1]
               ELSE [poll EXCEPT !.pc = "done", !.result = "None"]
    /\ UNCHANGED <<orders, disk, handlers, workers, clock, started, pushes>>

\* both handlers only read the order map
Status ==
    IF \E order_id \in OrderIds \cup {UnknownId} : check_order_status(order_id).code \in {200, 404}
    THEN UNCHANGED vars
    ELSE FALSE

\* a served download marks the order delivered
Download_MarksDelivered ==
    \/ \E order_id \in DOMAIN orders :
          /\ download_deliverable(order_id).code = 200
          /\ orders' = SetField(order_id, "status", "delivered")
          /\ UNCHANGED <<disk, handlers, workers, clock, started, pushes, poll>>
    \/ UNCHANGED vars

Download ==
    IF \E order_id \in OrderIds \cup {UnknownId} : download_deliverable(order_id).code \in {200, 202, 404}
    THEN UNCHANGED vars
    ELSE FALSE

\* ------------------------------------------------------------------- Next
\* request bodies: the well-formed one the client builds (ivxp-client.py
\* request_service) for each service type, and its one-field deviations
GoodRequest == [protocol |-> "IVXP/1.0", message_type |-> "service_request", type |-> "research"]

RequestBodies ==
    {GoodRequest,
     [GoodRequest EXCEPT !.type = "philosophy"],
     [GoodRequest EXCEPT !.type = "translation"],
     [GoodRequest EXCEPT !.protocol = "IVXP/0.9"],
     [GoodRequest EXCEPT !.message_type = "delivery_request"]}

\* a rejected request returns before anything is stored
RequestReject ==
    IF \E body \in RequestBodies : RequestCheck(body.protocol, body.message_type, body.type) # 0
    THEN UNCHANGED vars
    ELSE FALSE

Request ==
    \/ RequestReject
    \/ \E body \in RequestBodies, client \in Wallets, description \in Descriptions,
          budget \in Budgets, order_id \in OrderIds :
           handle_service_request(body.protocol, body.message_type, client, body.type,
                                  description, budget, order_id)

\* deliver request bodies: the well-formed one the client builds
\* (ivxp-client.py request_delivery) and its one-field deviations
GoodProof == [tx_hash |-> "tx_found", from_address |-> "0xAB", network |-> "base-mainnet"]
GoodSignature == [signer |-> "0xab", msg |-> "m1"]
GoodBody == [signed_message |-> "m1", signature |-> GoodSignature, payment_proof |-> GoodProof, rpc |-> "ok"]

DeliverBodies ==
    {GoodBody,
     [GoodBody EXCEPT !.signature = [signer |-> "0xcd", msg |-> "m1"]],
     [GoodBody EXCEPT !.signature = [signer |-> "malformed", msg |-> "malformed"]],
     [GoodBody EXCEPT !.signed_message = "m2"],
     [GoodBody EXCEPT !.payment_proof = [GoodProof EXCEPT !.from_address = "0xcd"]],
     [GoodBody EXCEPT !.payment_proof = [GoodProof EXCEPT !.from_address = "0xab"]],
     [GoodBody EXCEPT !.payment_proof = [GoodProof EXCEPT !.tx_hash = "tx_absent"]],
     [GoodBody EXCEPT !.rpc = "http_error"],
     [GoodBody EXCEPT !.rpc = "timeout"]}

\* the payment proof is stored on the order before it is verified
DeliverReject_StoresProof ==
    \E order_id \in DOMAIN orders, body \in DeliverBodies :
        /\ DeliverCheck(order_id, body.signed_message, body.signature, body.payment_proof, body.rpc) = 402
        /\ orders' = SetField(order_id, "payment_proof", body.payment_proof)
        /\ UNCHANGED <<disk, handlers, workers, clock, started, pushes, poll>>

\* a failed verification closes the order
DeliverReject_ClosesOrder ==
    \E order_id \in DOMAIN orders, body \in DeliverBodies :
        /\ DeliverCheck(order_id, body.signed_message, body.signature, body.payment_proof, body.rpc) \in {401, 402}
        /\ orders[order_id].status = "quoted"
        /\ orders' = SetField(order_id, "status", "delivery_failed")
        /\ UNCHANGED <<disk, handlers, workers, clock, started, pushes, poll>>

\* lines 119-148 with a failed check: answered at once with 404, 401 or 402
DeliverReject ==
    IF \E order_id \in OrderIds \cup {UnknownId}, body \in DeliverBodies :
           DeliverCheck(order_id, body.signed_message, body.signature, body.payment_proof, body.rpc) # 0
    THEN UNCHANGED vars
    ELSE FALSE

Deliver ==
    \/ DeliverReject
    \/ \E h \in Threads, order_id \in OrderIds, body \in DeliverBodies, delivery_endpoint \in Endpoints :
           DeliverAccept(h, order_id, body.signed_message, body.signature, body.payment_proof,
                         delivery_endpoint, body.rpc)

DeliverStep ==
    \E h \in Threads :
        \/ DeliverSetStatus(h)
        \/ DeliverSetProof(h)
        \/ DeliverSetEndpoint(h)
        \/ DeliverSetPaidAt(h)
        \/ DeliverSave(h)
        \/ DeliverSpawn(h)

WorkerStep ==
    \E w \in Threads :
        \/ WorkerProduce(w)
        \/ WorkerStoreDeliverable(w)
        \/ WorkerStoreHash(w)
        \/ WorkerStoreCompleted(w)
        \/ WorkerSave(w)
        \/ WorkerPush(w)
        \/ \E outcome \in PushOutcomes : WorkerPushResult(w, outcome)
        \/ WorkerSetDeliveredAt(w)
        \/ WorkerSaveDelivered(w)
        \/ WorkerSaveFailed(w)

Read == Status \/ Download

Next == Request \/ Deliver \/ DeliverStep \/ WorkerStep \/ Read

Spec == Init /\ [][Next]_vars

\* one request thread inside handle_delivery_request, lines 153-172
DeliverThread(h) ==
    \/ DeliverSetStatus(h)
    \/ DeliverSetProof(h)
    \/ DeliverSetEndpoint(h)
    \/ DeliverSetPaidAt(h)
    \/ DeliverSave(h)
    \/ DeliverSpawn(h)

\* one fulfillment thread, lines 226-306
WorkerThread(w) ==
    \/ WorkerProduce(w)
    \/ WorkerStoreDeliverable(w)
    \/ WorkerStoreHash(w)
    \/ WorkerStoreCompleted(w)
    \/ WorkerSave(w)
    \/ WorkerPush(w)
    \/ \E outcome \in PushOutcomes : WorkerPushResult(w, outcome)
    \/ WorkerSetDeliveredAt(w)
    \/ WorkerSaveDelivered(w)
    \/ WorkerSaveFailed(w)

\* every started thread keeps running: the sleep at 231 ends and the push
\* at 289 is bounded by timeout=30
FairSpec ==
    /\ Spec
    /\ \A t \in Threads : WF_vars(DeliverThread(t)) /\ WF_vars(WorkerThread(t))

\* requests of several clients with budgets below, at and above the price
WideWallets == {"0xAB", "0xCD"}
WideBudgets == {1, 50, 100}

QuoteNext ==
    \/ RequestReject
    \/ \E body \in RequestBodies, client \in WideWallets, description \in Descriptions,
          budget \in WideBudgets, order_id \in OrderIds :
           handle_service_request(body.protocol, body.message_type, client, body.type,
                                  description, budget, order_id)

QuoteSpec == Init /\ [][QuoteNext]_vars

\* the client polling a provider that may answer anything
PollNext ==
    \/ \E max_attempts \in 0..MaxAttempts : PollStart(max_attempts)
    \/ \E answer \in StatusAnswers : PollCheck(answer)
    \/ \E answer \in DownloadAnswers : PollDownload(answer)
    \/ PollWait

\* every request of the client is bounded by a timeout (10 s and 30 s) and
\* every sleep ends, so the loop keeps taking steps
PollSpec == Init /\ [][PollNext]_vars /\ WF_vars(PollNext)

\* ===================================================================
\* Properties
\* ===================================================================
Terminal == {"delivered", "delivery_failed"}

AcceptedFor(o) == {h \in Threads : handlers[h].code = 200 /\ handlers[h].order_id = o}

\* C1: deliver is a one-shot gate: a deliver that arrives for an order that has
\* left quoted does not pass (it is answered InvalidState), at most one deliver
\* per order is answered accepted, and payment_proof and paid_at keep the
\* values of the first accepted call.
C1_DeliverOnce ==
    [][/\ \A h \in Threads :
            (handlers[h].pc = "idle" /\ handlers'[h].pc # "idle")
                => orders[handlers'[h].order_id].status = "quoted"
       /\ \A o \in DOMAIN orders :
            /\ Cardinality(AcceptedFor(o))' <= 1
            /\ started[o] >= 1 =>
                 /\ orders'[o].payment_proof = orders[o].payment_proof
                 /\ orders'[o].paid_at = orders[o].paid_at]_vars

\* C2: of the deliver requests handled at the same time for one order, only
\* one performs the quoted->paid transition: no two handlers are both about
\* to answer accepted for the same order.
C2_ConcurrentDeliverOneWinner ==
    \A h1, h2 \in Threads :
        (h1 # h2 /\ handlers[h1].pc = "spawn" /\ handlers[h2].pc = "spawn")
            => handlers[h1].order_id # handlers[h2].order_id

\* C3: the fulfillment runner is started at most once per order.
C3_FulfillmentAtMostOnce == \A o \in OrderIds : started[o] <= 1

StatusEdges == {<<"quoted", "paid">>, <<"paid", "delivered">>, <<"paid", "delivery_failed">>}

\* C4: every change of an order's status is one of the edges quoted->paid,
\* paid->delivered, paid->delivery_failed.
C4_StatusForwardOnly ==
    [][\A o \in DOMAIN orders :
          orders'[o].status # orders[o].status
              => <<orders[o].status, orders'[o].status>> \in StatusEdges]_vars

\* C5: delivered and delivery_failed are terminal: a status in one of them
\* is the same in the next state.
C5_TerminalIsFinal ==
    [][\A o \in DOMAIN orders :
          orders[o].status \in Terminal => orders'[o].status = orders[o].status]_vars

HasArtifact(order) == order.deliverable # NoDeliverable /\ order.content_hash # NoHash
NoArtifact(order) == order.deliverable = NoDeliverable /\ order.content_hash = NoHash

\* C6 (as stated): deliverable and content_hash are present if and only if the
\* status is delivered or delivery_failed.
C6_ArtifactIffTerminal ==
    \A o \in DOMAIN orders :
        /\ (orders[o].deliverable # NoDeliverable) <=> (orders[o].status \in Terminal)
        /\ (orders[o].content_hash # NoHash) <=> (orders[o].status \in Terminal)

\* C6 (amended): a delivered or delivery_failed order carries deliverable and
\* content_hash and a quoted order carries neither; a paid order may already
\* carry them, since they are stored before the delivery outcome is known.
C6_ArtifactTerminalQuoted ==
    \A o \in DOMAIN orders :
        /\ orders[o].status \in Terminal => HasArtifact(orders[o])
        /\ orders[o].status = "quoted" => NoArtifact(orders[o])

C6_Witness ==
    /\ \E o \in DOMAIN orders : orders[o].status \in Terminal /\ HasArtifact(orders[o])
    /\ \E o \in DOMAIN orders : orders[o].status = "quoted"

\* C7: payment_proof is present if and only if the status is paid, delivered
\* or delivery_failed.
C7_ProofIffPaid ==
    \A o \in DOMAIN orders :
        (orders[o].payment_proof # NoProof) <=> (orders[o].status \in {"paid"} \cup Terminal)

\* C8: store before send: while a push request is out, the order file holds
\* the order with the deliverable and the content_hash the push carries.
C8_StoreBeforeSend ==
    \A w \in Threads :
        workers[w].pc = "await" =>
            /\ workers[w].order_id \in DOMAIN disk
            /\ disk[workers[w].order_id].deliverable = workers[w].deliverable
            /\ disk[workers[w].order_id].content_hash = workers[w].content_hash
            /\ HasArtifact(disk[workers[w].order_id])

C8_Witness == \E w \in Threads : workers[w].pc = "await" /\ pushes[workers[w].order_id] >= 1

\* C9: for an order in delivered or delivery_failed the stored content_hash is
\* the hash of the stored deliverable content, and a successful download
\* carries a content_hash that is the hash of the content it carries.
C9_HashMatchesContent ==
    \A o \in DOMAIN orders :
        /\ orders[o].status \in Terminal
              => orders[o].content_hash = create_content_hash(orders[o].deliverable.content)
        /\ download_deliverable(o).code = 200
              => download_deliverable(o).body.content_hash
                     = create_content_hash(download_deliverable(o).body.deliverable.content)

C9_Witness ==
    \E o \in DOMAIN orders :
        /\ orders[o].status \in Terminal
        /\ download_deliverable(o).code = 200
        /\ download_deliverable(o).body.content_hash # NoHash

Verified(o, proof) ==
    \E body \in DeliverBodies :
        /\ body.payment_proof = proof
        /\ verify_signature(body.signed_message, body.signature, proof.from_address)
        /\ verify_payment(proof, WALLET_ADDRESS, orders[o].price_usdc, body.rpc)

\* C11: an order leaves quoted, and gets its first field written, only in a
\* step of a deliver handler for that order whose payment proof passed
\* verify_signature and verify_payment; every stored payment proof passed both.
C11_VerifiedBeforeWrite ==
    [][/\ \A o \in DOMAIN orders :
            (orders[o].status = "quoted" /\ orders'[o] # orders[o]) =>
                \E h \in Threads :
                    /\ handlers[h].pc = "set_status"
                    /\ handlers'[h].pc = "set_proof"
                    /\ handlers[h].order_id = o
                    /\ Verified(o, handlers[h].payment_proof)
       /\ \A o \in DOMAIN orders :
            orders'[o].payment_proof # NoProof => Verified(o, orders'[o].payment_proof)]_vars

C11_Witness ==
    \E o \in DOMAIN orders : orders[o].status = "paid" /\ orders[o].payment_proof # NoProof

BodyProofs == {body.payment_proof : body \in DeliverBodies}
BodyRpcs == {body.rpc : body \in DeliverBodies}

\* C12: a deliver on a quoted order whose signature does not recover to
\* payment_proof.from_address is answered 401 whatever the payment proof and
\* the chain answer, and no handler goes on to write the order.
C12_BadSignatureIs401 ==
    \A o \in DOMAIN orders, body \in DeliverBodies, proof \in BodyProofs, rpc \in BodyRpcs :
        (orders[o].status = "quoted"
           /\ ~verify_signature(body.signed_message, body.signature, proof.from_address))
            => DeliverCheck(o, body.signed_message, body.signature, proof, rpc) = 401

C12_Witness ==
    \E o \in DOMAIN orders, body \in DeliverBodies :
        /\ orders[o].status = "quoted"
        /\ orders[o].payment_proof = NoProof
        /\ started[o] = 0
        /\ ~verify_signature(body.signed_message, body.signature, body.payment_proof.from_address)
        /\ ~verify_payment(body.payment_proof, WALLET_ADDRESS, orders[o].price_usdc, "timeout")
        /\ DeliverCheck(o, body.signed_message, body.signature, body.payment_proof, "timeout") = 401

\* C13: the order map, the order file and the started workers change only in
\* a step in which an order is created or a deliver handler past its checks
\* or a fulfillment worker moves: a rejected deliver changes none of them.
C13_RejectedDeliverWritesNothing ==
    [][(orders' # orders \/ disk' # disk \/ started' # started)
          => \/ DOMAIN orders' # DOMAIN orders
             \/ \E h \in Threads : handlers'[h] # handlers[h] /\ handlers[h].pc # "idle"
             \/ \E w \in Threads : workers'[w] # workers[w] /\ workers[w].pc # "idle"]_vars

C13_Witness ==
    /\ \E o \in DOMAIN orders, body \in DeliverBodies :
           DeliverCheck(o, body.signed_message, body.signature, body.payment_proof, body.rpc) = 401
    /\ \E o \in DOMAIN orders, body \in DeliverBodies :
           DeliverCheck(o, body.signed_message, body.signature, body.payment_proof, body.rpc) = 402
    /\ \E body \in DeliverBodies :
           DeliverCheck(UnknownId, body.signed_message, body.signature, body.payment_proof, body.rpc) = 404

\* C14: a request for a service type outside the catalog is answered 400, no
\* stored order has such a type, and status of an id that was not issued is 404.
C14_UnknownTypeCreatesNothing ==
    /\ \A body \in RequestBodies :
          body.type \notin CatalogTypes => RequestCheck(body.protocol, body.message_type, body.type) = 400
    /\ \A o \in DOMAIN orders : orders[o].service_type \in CatalogTypes
    /\ \A id \in (OrderIds \cup {UnknownId}) \ DOMAIN orders : check_order_status(id).code = 404

C14_Witness ==
    /\ \E body \in RequestBodies : body.type \notin CatalogTypes
    /\ \E o \in OrderIds : o \in DOMAIN orders
    /\ \E o \in OrderIds : o \notin DOMAIN orders

\* C15: an order whose stored delivery endpoint is empty (its accepted deliver
\* carried none) is never delivered and no push was sent for it, and once its
\* fulfillment failed download returns the deliverable with its content_hash.
C15_NoEndpointFails ==
    \A o \in DOMAIN orders :
        orders[o].delivery_endpoint = "" =>
            /\ orders[o].status # "delivered"
            /\ pushes[o] = 0
            /\ orders[o].status = "delivery_failed" =>
                  /\ download_deliverable(o).code = 200
                  /\ download_deliverable(o).body.deliverable = orders[o].deliverable
                  /\ download_deliverable(o).body.content_hash = orders[o].content_hash

\* C16: a push answered 200 makes the order delivered, any other outcome makes
\* it delivery_failed; a failed order is served by download with code 200, and
\* a worker that saves a delivered order has set delivered_at.
C16_PushOutcomeDecides ==
    [][/\ \A w \in Threads, outcome \in PushOutcomes :
            WorkerPushResult(w, outcome) =>
                LET o == workers[w].order_id IN
                /\ (outcome = "200") <=> (orders'[o].status = "delivered")
                /\ (outcome # "200") <=> (orders'[o].status = "delivery_failed")
                /\ (outcome # "200") => download_deliverable(o)'.code = 200
                /\ (outcome = "200") => workers'[w].pc = "set_delivered_at"
       /\ \A w \in Threads :
            workers'[w].pc = "save_delivered" => orders'[workers'[w].order_id].delivered_at # NoTime]_vars

C16_Witness ==
    /\ \E w \in Threads : workers[w].pc = "save_delivered"
    /\ \E w \in Threads :
          /\ workers[w].pc = "save_failed"
          /\ pushes[workers[w].order_id] > 0
          /\ download_deliverable(workers[w].order_id).code = 200

\* C17: at most one push request is ever sent for an order.
C17_AtMostOnePush ==
    \A o \in OrderIds : pushes[o] <= 1

\* C18: download of an existing order answers 200 with the deliverable or 202,
\* never an error code, also when a status write falls between its reads; it
\* answers 200 only for a terminal order and hints pending_payment for a
\* quoted and processing for a paid order.
C18_DownloadSoftNotReady ==
    [][\A o \in DOMAIN orders :
          \A r \in {download_reads(orders[o], orders[o], orders[o]),
                    download_reads(orders[o], orders'[o], orders'[o]),
                    download_reads(orders[o], orders[o], orders'[o])} :
              /\ r.code \in {200, 202}
              /\ r.code = 200 => r.body.deliverable # NoDeliverable
              /\ (r.code = 202 /\ orders[o].status = "quoted") => r.body.status = "pending_payment"
              /\ (r.code = 202 /\ orders[o].status = "paid") => r.body.status = "processing"]_vars

Working(o) ==
    \/ \E h \in Threads : handlers[h].order_id = o /\ handlers[h].pc \notin {"idle", "done"}
    \/ \E w \in Threads : workers[w].order_id = o /\ workers[w].pc \notin {"idle", "done"}

\* C19: a paid order always has a deliver handler or a fulfillment worker
\* still at work on it, so that under fair threads it goes on to delivered or
\* delivery_failed; the status answer of a terminal order carries the
\* content_hash of the order.
C19_PaidIsBeingFulfilled ==
    \A o \in DOMAIN orders :
        /\ orders[o].status = "paid" => Working(o)
        /\ orders[o].status \in Terminal =>
              check_order_status(o).body.content_hash = orders[o].content_hash

\* C20: an order enters delivered or delivery_failed only from paid, with
\* paid_at set: never from quoted and never from the other terminal status.
C20_TerminalOnlyFromPaid ==
    [][\A o \in DOMAIN orders :
          (orders'[o].status \in Terminal /\ orders'[o].status # orders[o].status) =>
              /\ orders[o].status = "paid"
              /\ orders'[o].paid_at # NoTime]_vars

\* C21: no reader sees a half-written update: an order that has left quoted
\* carries payment_proof and paid_at, a delivered order carries delivered_at
\* (also in the download answer), and deliverable, content_hash and
\* completed_at are present together.
C21_NoPartialWrite ==
    \A o \in DOMAIN orders :
        /\ orders[o].status # "quoted" =>
              orders[o].payment_proof # NoProof /\ orders[o].paid_at # NoTime
        /\ orders[o].status = "delivered" =>
              /\ orders[o].delivered_at # NoTime
              /\ download_deliverable(o).code = 200 => download_deliverable(o).body.delivered_at # NoTime
        /\ (orders[o].deliverable # NoDeliverable) <=> (orders[o].content_hash # NoHash)
        /\ (orders[o].content_hash # NoHash) <=> (orders[o].completed_at # NoTime)

SameRequest(o1, o2) ==
    /\ orders[o1].service_type = orders[o2].service_type
    /\ orders[o1].description = orders[o2].description

C23_StatusCarriesHash ==
    \A o \in DOMAIN orders :
        /\ check_order_status(o).code = 200
        /\ check_order_status(o).body.status = orders[o].status
        /\ check_order_status(o).body.service_type = orders[o].service_type
        /\ check_order_status(o).body.price_usdc = orders[o].price_usdc
        /\ check_order_status(o).body.created_at = orders[o].created_at
        /\ orders[o].deliverable # NoDeliverable =>
              check_order_status(o).body.content_hash = orders[o].content_hash

\* C24: status and download are enabled in every state, whatever the handlers
\* and workers are doing, and a step of either leaves the order map, the
\* order file, the set of order ids and the workers unchanged.
C24_ReadsArePure ==
    /\ [](ENABLED Status /\ ENABLED Download)
    /\ [][(Status \/ Download) =>
             UNCHANGED <<orders, disk, workers, handlers, started, pushes>>]_vars

C24_Witness ==
    \E o \in DOMAIN orders, w \in Threads :
        /\ workers[w].order_id = o
        /\ workers[w].pc = "await"
        /\ check_order_status(o).code = 200
        /\ download_deliverable(o).code = 202
        /\ check_order_status(UnknownId).code = 404
        /\ download_deliverable(UnknownId).code = 404

\* C25: in a step in which no deliver handler moves (a rejected deliver is
\* such a step) a quoted order stays quoted, and a deliver with a valid
\* signature and payment proof still passes the checks for it.
C25_RetryAfterRejection ==
    [][\A o \in DOMAIN orders :
          (orders[o].status = "quoted" /\ handlers' = handlers) =>
              /\ orders'[o].status = "quoted"
              /\ DeliverCheck(o, GoodBody.signed_message, GoodBody.signature,
                              GoodBody.payment_proof, GoodBody.rpc)' = 0]_vars

C25_Witness ==
    \E o \in DOMAIN orders, h \in Threads :
        /\ orders[o].status = "quoted"
        /\ handlers[h].pc = "set_status"
        /\ handlers[h].order_id = o
        /\ \E body \in DeliverBodies :
              DeliverCheck(o, body.signed_message, body.signature, body.payment_proof, body.rpc) = 401
        /\ \E body \in DeliverBodies :
              DeliverCheck(o, body.signed_message, body.signature, body.payment_proof, body.rpc) = 402

InOrder(earlier, later) == (earlier # NoTime /\ later # NoTime) => earlier <= later

\* C26: a timestamp that is set keeps its value in the next state, and the
\* timestamps that are set respect created_at <= paid_at <= completed_at <=
\* delivered_at.
C26_TimestampsWrittenOnce ==
    [][\A o \in DOMAIN orders :
          /\ orders[o].created_at # NoTime => orders'[o].created_at = orders[o].created_at
          /\ orders[o].paid_at # NoTime => orders'[o].paid_at = orders[o].paid_at
          /\ orders[o].completed_at # NoTime => orders'[o].completed_at = orders[o].completed_at
          /\ orders[o].delivered_at # NoTime => orders'[o].delivered_at = orders[o].delivered_at
          /\ InOrder(orders'[o].created_at, orders'[o].paid_at)
          /\ InOrder(orders'[o].paid_at, orders'[o].completed_at)
          /\ InOrder(orders'[o].created_at, orders'[o].completed_at)
          /\ InOrder(orders'[o].completed_at, orders'[o].delivered_at)
          /\ InOrder(orders'[o].paid_at, orders'[o].delivered_at)]_vars

\* C27: the step in which the deliver handler answers accepted is enabled as
\* soon as the handler has saved the paid order; it only starts the worker
\* and writes nothing to the order, so the answer is out while the order is
\* still paid without a deliverable.
C27_AcceptedWithoutWaiting ==
    /\ [](\A h \in Threads : handlers[h].pc = "spawn" => ENABLED DeliverSpawn(h))
    /\ [][\A h \in Threads :
             (handlers[h].pc = "spawn" /\ handlers'[h].pc = "done") =>
                 /\ handlers'[h].code = 200
                 /\ orders' = orders
                 /\ workers'[h].pc = "produce"]_vars

C27_Witness ==
    \E h \in Threads :
        /\ handlers[h].pc = "done"
        /\ handlers[h].code = 200
        /\ workers[h].pc = "produce"
        /\ orders[handlers[h].order_id].status = "paid"
        /\ orders[handlers[h].order_id].deliverable = NoDeliverable
        /\ orders[handlers[h].order_id].content_hash = NoHash

\* C28: the failure kinds have their own codes: deliver answers 404 for an
\* unknown order, 400 for an order that is not quoted, 401 for a bad
\* signature and 402 for a bad payment on a quoted order; status and download
\* answer 404 for an unknown id.
C28_DistinctFailureCodes ==
    /\ check_order_status(UnknownId).code = 404
    /\ download_deliverable(UnknownId).code = 404
    /\ \A body \in DeliverBodies :
          /\ DeliverCheck(UnknownId, body.signed_message, body.signature, body.payment_proof, body.rpc) = 404
          /\ \A o \in DOMAIN orders :
                LET code == DeliverCheck(o, body.signed_message, body.signature, body.payment_proof, body.rpc)
                    sig_ok == verify_signature(body.signed_message, body.signature, body.payment_proof.from_address)
                    pay_ok == verify_payment(body.payment_proof, WALLET_ADDRESS, orders[o].price_usdc, body.rpc)
                IN /\ orders[o].status # "quoted" => code = 400
                   /\ (orders[o].status = "quoted" /\ ~sig_ok) => code = 401
                   /\ (orders[o].status = "quoted" /\ sig_ok /\ ~pay_ok) => code = 402
                   /\ (orders[o].status = "quoted" /\ sig_ok /\ pay_ok) => code = 0

\* C29: when the content of a served download is altered on the way, so that
\* its hash is no longer the content_hash of the payload, the client does
\* not save or return the delivery.
C29_ClientRejectsAlteredContent ==
    \A o \in DOMAIN orders :
        download_deliverable(o).code = 200 =>
            LET received == Response(200, Tampered(download_deliverable(o).body)) IN
            create_content_hash(received.body.deliverable.content) # received.body.content_hash
                => client_download_deliverable(received) = NoBody

PushSent == {"await", "set_delivered_at", "save_delivered"}

\* C30: the payload of a push carries the deliverable and the content_hash
\* that are stored on the order, and a download answered 200 while the worker
\* of that push is still running returns the same two.
C30_PushCarriesStored ==
    \A w \in Threads :
        workers[w].pc \in PushSent =>
            LET o == workers[w].order_id IN
            /\ PushPayload(w).deliverable = orders[o].deliverable
            /\ PushPayload(w).content_hash = orders[o].content_hash
            /\ download_deliverable(o).code = 200 =>
                  /\ download_deliverable(o).body.deliverable = PushPayload(w).deliverable
                  /\ download_deliverable(o).body.content_hash = PushPayload(w).content_hash

C30_Witness ==
    \E w \in Threads :
        /\ workers[w].pc = "save_delivered"
        /\ pushes[workers[w].order_id] >= 1
        /\ download_deliverable(workers[w].order_id).code = 200
        /\ PushPayload(w).content_hash # NoHash

Addresses == {"0xAB", "0xab", "0xcd", "absent"}

\* C31: verify_signature answers TRUE or FALSE for every input; it answers
\* TRUE exactly when the signature is well formed and the address recovered
\* from it equals the claimed address up to letter case; a malformed
\* signature on an existing order is answered 401, not an error.
C31_SignatureFailsClosed ==
    \A body \in DeliverBodies, address \in Addresses :
        LET result == verify_signature(body.signed_message, body.signature, address) IN
        /\ result \in BOOLEAN
        /\ result <=> /\ body.signature.signer # "malformed"
                      /\ Lower(recover_message(body.signed_message, body.signature)) = Lower(address)
        /\ body.signature.signer = "malformed" =>
              \A o \in DOMAIN orders :
                  DeliverCheck(o, body.signed_message, body.signature, body.payment_proof, body.rpc) = 401

C31_Witness ==
    /\ \E o \in DOMAIN orders : orders[o].payment_proof.from_address = "0xAB"
    /\ verify_signature(GoodBody.signed_message, GoodSignature, "0xAB")
    /\ verify_signature(GoodBody.signed_message, GoodSignature, "0xab")
    /\ ~verify_signature(GoodBody.signed_message, GoodSignature, "0xcd")
    /\ ~verify_signature(GoodBody.signed_message, [signer |-> "malformed", msg |-> "malformed"], "0xAB")

ExpectedTo == {WALLET_ADDRESS, "0xother"}
\* C32: verify_payment answers TRUE exactly when the chain lookup answers
\* 200 with a transaction for tx_hash, and FALSE for an error answer, a
\* missing transaction or a timeout; the answer is the same for every
\* expected recipient and for the price of every order; every stored
\* payment proof names a transaction the chain knows.
C32_PaymentExistenceOnly ==
    /\ \A o \in DOMAIN orders :
          orders[o].payment_proof # NoProof => orders[o].payment_proof.tx_hash \in ChainTxs
    /\ \A proof \in BodyProofs, rpc \in BodyRpcs, expected_to \in ExpectedTo, o \in DOMAIN orders :
          /\ verify_payment(proof, expected_to, orders[o].price_usdc, rpc)
                <=> (rpc = "ok" /\ proof.tx_hash \in ChainTxs)
          /\ verify_payment(proof, expected_to, orders[o].price_usdc, rpc)
                = verify_payment(proof, WALLET_ADDRESS, 0, rpc)

C32_Witness ==
    \E o1, o2 \in DOMAIN orders :
        /\ orders[o1].price_usdc # orders[o2].price_usdc
        /\ orders[o1].payment_proof = GoodProof
        /\ orders[o2].payment_proof = GoodProof
        /\ ~verify_payment(GoodProof, WALLET_ADDRESS, orders[o1].price_usdc, "timeout")
        /\ ~verify_payment(GoodProof, WALLET_ADDRESS, orders[o1].price_usdc, "http_error")

\* C33: poll_and_download makes at most max_attempts status checks and ends:
\* it returns the deliverable only right after a status check that reported
\* delivered or delivery_failed and a download answered 200, and returns None
\* only after the max_attempts-th check.
C33_PollTerminates ==
    /\ [](/\ poll.checks <= poll.max_attempts
          /\ poll.downloads <= poll.checks
          /\ poll.pc = "done" =>
                /\ poll.result = "deliverable" =>
                      poll.status \in {"delivered", "delivery_failed"} /\ poll.downloads >= 1
                /\ poll.result = "None" => poll.checks = poll.max_attempts)
    /\ <>(poll.pc = "done")

C33_Witness ==
    /\ poll.pc = "done"
    /\ poll.result = "deliverable"
    /\ poll.checks = MaxAttempts
    /\ poll.downloads = 2

\* C34: every order created by a request is quoted at the catalog base price
\* of its service type, whatever budget the client declared, and is in the
\* order file as created.
C34_QuotedAtCatalogPrice ==
    \A o \in DOMAIN orders :
        /\ orders[o].status = "quoted"
        /\ orders[o].service_type \in CatalogTypes
        /\ orders[o].price_usdc = SERVICE_CATALOG[orders[o].service_type].base_price
        /\ o \in DOMAIN disk /\ disk[o] = orders[o]

C34_Witness ==
    /\ \E o \in DOMAIN orders :
          /\ orders[o].service_type = "research"
          /\ orders[o].budget = 1
          /\ orders[o].price_usdc = 50
    /\ \E o \in DOMAIN orders :
          /\ orders[o].service_type = "research"
          /\ orders[o].budget = 50
          /\ orders[o].price_usdc = 50

SameButClient(o1, o2) ==
    [orders[o1] EXCEPT !.client = "any", !.created_at = NoTime]
        = [orders[o2] EXCEPT !.client = "any", !.created_at = NoTime]

\* C36: for two orders that differ only in the client wallet recorded at
\* request time, every deliver call gets the same answer.
C36_ClientWalletNotCompared ==
    \A o1, o2 \in DOMAIN orders, body \in DeliverBodies :
        SameButClient(o1, o2) =>
            DeliverCheck(o1, body.signed_message, body.signature, body.payment_proof, body.rpc)
                = DeliverCheck(o2, body.signed_message, body.signature, body.payment_proof, body.rpc)

C36_Witness ==
    \E o1, o2 \in DOMAIN orders :
        /\ SameButClient(o1, o2)
        /\ orders[o1].client = "0xAB"
        /\ orders[o2].client = "0xCD"
        /\ DeliverCheck(o2, GoodBody.signed_message, GoodBody.signature, GoodBody.payment_proof, GoodBody.rpc) = 0

C37_DeliveredAtIffDelivered ==
    \A o \in DOMAIN orders :
        /\ (orders[o].delivered_at # NoTime) <=> (orders[o].status = "delivered")
        /\ (orders[o].status = "delivery_failed" /\ download_deliverable(o).code = 200)
              => download_deliverable(o).body.delivered_at = NoTime

Quiescent ==
    \A t \in Threads : handlers[t].pc \in {"idle", "done"} /\ workers[t].pc \in {"idle", "done"}

\* C38: the order file records the order as paid, with its payment proof,
\* once deliver has answered accepted and once a worker runs for it, records
\* deliverable and content_hash while a push is out, and equals the order map
\* whenever no handler and no worker is in the middle of an update.
C38_DurableBeforeVisible ==
    /\ \A h \in Threads :
          (handlers[h].pc = "done" /\ handlers[h].code = 200) =>
              /\ disk[handlers[h].order_id].status # "quoted"
              /\ disk[handlers[h].order_id].payment_proof # NoProof
    /\ \A w \in Threads :
          workers[w].pc # "idle" => disk[workers[w].order_id].status # "quoted"
    /\ \A w \in Threads :
          workers[w].pc = "await" =>
              /\ disk[workers[w].order_id].deliverable # NoDeliverable
              /\ disk[workers[w].order_id].content_hash # NoHash
    /\ Quiescent => disk = orders

Protocols == {"IVXP/1.0", "IVXP/0.9", "absent"}
MessageTypes == {"service_request", "delivery_request", "absent"}

\* lines 116-172: the answer to a deliver body, which may carry protocol and
\* message_type fields
handle_delivery_request_code(data) ==
    DeliverCheck(data.order_id, data.signed_message, data.signature, data.payment_proof, data.rpc)

DeliverData(order_id, body, protocol, message_type) ==
    [order_id |-> order_id, protocol |-> protocol, message_type |-> message_type,
     signed_message |-> body.signed_message, signature |-> body.signature,
     payment_proof |-> body.payment_proof, rpc |-> body.rpc]

\* C39: a request with another protocol or another message_type is answered
\* 400 whatever its service type, and no order is stored for it; the answer
\* to a deliver is the same for every protocol and message_type it carries.
C39_ProtocolCheckedOnRequestOnly ==
    /\ \A protocol \in Protocols, message_type \in MessageTypes, body \in RequestBodies :
          (protocol # "IVXP/1.0" \/ message_type # "service_request")
              => RequestCheck(protocol, message_type, body.type) = 400
    /\ \A order_id \in DOMAIN orders \cup {UnknownId}, body \in DeliverBodies,
          protocol \in Protocols, message_type \in MessageTypes :
          handle_delivery_request_code(DeliverData(order_id, body, protocol, message_type))
              = handle_delivery_request_code(DeliverData(order_id, body, "IVXP/1.0", "delivery_request"))

C39_Witness ==
    \E o \in DOMAIN orders :
        /\ handle_delivery_request_code(DeliverData(o, GoodBody, "absent", "absent")) = 0
        /\ RequestCheck("IVXP/0.9", "service_request", orders[o].service_type) = 400
        /\ RequestCheck("IVXP/1.0", "delivery_request", orders[o].service_type) = 400

====
